---- MODULE Spec2Model ----
(***************************************************************************)
(* Model of upsilon_py.NumWorks: a driver that talks newline-delimited     *)
(* JSON to a child process over its standard streams.                      *)
(*                                                                         *)
(* Scheduling.  The driver runs on one asyncio event loop: a task runs     *)
(* until an await that really suspends, so each action below is one such   *)
(* run-to-suspension segment of a task.  The child is a separate process   *)
(* and interleaves freely.                                                 *)
(***************************************************************************)
EXTENDS Naturals, Sequences, FiniteSets, TLC

\* ---------------------------------------------------------------- bounds
MaxSessions == 3    \* start() calls made by the caller
MaxCalls == 2       \* public calls other than start() made by the caller
MaxQuietCalls == 3  \* the same, with children that print nothing unasked
MaxFaults == 1
MaxFrames == 2      \* child faults: lines that answer no request, and crashes

Sessions == 1..MaxSessions

\* ------------------------------------------------------------ JSON values
\* A JSON value is a record [kind, val]: a scalar keeps its JSON literal
\* text, a list its elements, a dict its members in insertion order.
JStr(s) == [kind |-> "str", val |-> s]
JInt(s) == [kind |-> "int", val |-> s]
JTrue == [kind |-> "bool", val |-> "true"]
JFalse == [kind |-> "bool", val |-> "false"]
JNull == [kind |-> "null", val |-> "null"]
JList(elems) == [kind |-> "list", val |-> elems]
JDict(members) == [kind |-> "dict", val |-> members]
Member(k, v) == [k |-> k, v |-> v]

\* isinstance(v, dict)
IsDict(v) == v.kind = "dict"

\* Python truth value of a decoded JSON value.
Truthy(v) ==
    CASE v.kind = "bool" -> v.val = "true"
      [] v.kind = "null" -> FALSE
      [] v.kind = "int" -> v.val # "0"
      [] v.kind = "str" -> v.val # ""
      [] OTHER -> Len(v.val) # 0

HasKey(d, key) == \E i \in 1..Len(d.val) : d.val[i].k = key

\* d[key] of a dict that has the key
Item(d, key) == d.val[CHOOSE i \in 1..Len(d.val) : d.val[i].k = key].v

\* d.get(key, False)
DictGet(d, key) == IF HasKey(d, key) THEN Item(d, key) ELSE JFalse

\* d[key] = v: an existing key keeps its place
DictSet(d, key, v) ==
    IF HasKey(d, key)
    THEN JDict([i \in 1..Len(d.val) |->
                  IF d.val[i].k = key THEN Member(key, v) ELSE d.val[i]])
    ELSE JDict(Append(d.val, Member(key, v)))

\* ------------------------------------------------------- JSON text, tokens
\* The bytes of a line are kept as tokens: punctuation, white space, string
\* literals, other literals, and text that is no JSON at all.
Punct(s) == [t |-> "punct", s |-> s]
Ws(s) == [t |-> "ws", s |-> s]
StrTok(s) == [t |-> "str", s |-> s]
Lit(s) == [t |-> "lit", s |-> s]
Raw(s) == [t |-> "raw", s |-> s]
Newline == Ws("\n")

\* the decimal text of 1, 2, ...
Decimal == <<"1", "2", "3", "4", "5", "6", "7", "8", "9", "10", "11", "12", "13",
             "14", "15", "16", "17", "18", "19", "20">>
IntLits == {"0", "42"} \cup {Decimal[i] : i \in 1..Len(Decimal)}

\* json.dumps leaving the characters of a string as they are
EscapeNothing(s) == s

\* json.dumps of the characters of a string: a control character, a quote and
\* a backslash become escape sequences, the rest stays
Escape(s) ==
    CASE s = "a\nb" -> "a\\nb"
      [] s = "\"" -> "\\\""
      [] s = "a\\nb" -> "a\\\\nb"
      [] OTHER -> s

\* json.loads of the text of a string literal
Unescape(s) ==
    CASE s = "a\\nb" -> "a\nb"
      [] s = "\\\"" -> "\""
      [] s = "a\\\\nb" -> "a\\nb"
      [] OTHER -> s

RECURSIVE JsonDumps(_)
RECURSIVE DumpElems(_, _)
RECURSIVE DumpMembers(_, _)

\* json.dumps(v): default separators ", " and ": "
JsonDumps(v) ==
    CASE v.kind = "str" -> <<StrTok(Escape(v.val))>>
      [] v.kind = "list" -> <<Punct("[")>> \o DumpElems(v.val, 1) \o <<Punct("]")>>
      [] v.kind = "dict" -> <<Punct("{")>> \o DumpMembers(v.val, 1) \o <<Punct("}")>>
      [] OTHER -> <<Lit(v.val)>>

DumpElems(elems, i) ==
    IF i > Len(elems) THEN <<>>
    ELSE (IF i > 1 THEN <<Punct(","), Ws(" ")>> ELSE <<>>)
         \o JsonDumps(elems[i]) \o DumpElems(elems, i + 1)

DumpMembers(members, i) ==
    IF i > Len(members) THEN <<>>
    ELSE (IF i > 1 THEN <<Punct(","), Ws(" ")>> ELSE <<>>)
         \o <<StrTok(Escape(members[i].k)), Punct(":"), Ws(" ")>>
         \o JsonDumps(members[i].v) \o DumpMembers(members, i + 1)

\* json.loads raises JSONDecodeError
Invalid == [kind |-> "invalid", val |-> ""]

Fail == [ok |-> FALSE, val |-> Invalid, rest |-> <<>>]
Parsed(v, rest) == [ok |-> TRUE, val |-> v, rest |-> rest]

RECURSIVE SkipWs(_)
SkipWs(ts) == IF ts # <<>> /\ Head(ts).t = "ws" THEN SkipWs(Tail(ts)) ELSE ts

IsPunct(ts, s) == ts # <<>> /\ Head(ts) = Punct(s)

LitValue(s) ==
    CASE s = "true" -> JTrue
      [] s = "false" -> JFalse
      [] s = "null" -> JNull
      [] s \in IntLits -> JInt(s)
      [] OTHER -> Invalid

RECURSIVE ParseValue(_)
RECURSIVE ParseElems(_, _)
RECURSIVE ParseMembers(_, _)

\* one JSON value at the front of the tokens, white space skipped
ParseValue(ts0) ==
    LET ts == SkipWs(ts0) IN
    IF ts = <<>> THEN Fail
    ELSE LET h == Head(ts) IN
         CASE h.t = "str" -> Parsed(JStr(Unescape(h.s)), Tail(ts))
           [] h.t = "lit" ->
                IF LitValue(h.s) = Invalid THEN Fail
                ELSE Parsed(LitValue(h.s), Tail(ts))
           [] h = Punct("[") ->
                IF IsPunct(SkipWs(Tail(ts)), "]")
                THEN Parsed(JList(<<>>), Tail(SkipWs(Tail(ts))))
                ELSE ParseElems(Tail(ts), <<>>)
           [] h = Punct("{") ->
                IF IsPunct(SkipWs(Tail(ts)), "}")
                THEN Parsed(JDict(<<>>), Tail(SkipWs(Tail(ts))))
                ELSE ParseMembers(Tail(ts), JDict(<<>>))
           [] OTHER -> Fail

\* the elements of a list after "[" or ",", up to and including "]"
ParseElems(ts, acc) ==
    LET e == ParseValue(ts) IN
    IF ~e.ok THEN Fail
    ELSE LET r == SkipWs(e.rest) IN
         IF IsPunct(r, ",") THEN ParseElems(Tail(r), Append(acc, e.val))
         ELSE IF IsPunct(r, "]") THEN Parsed(JList(Append(acc, e.val)), Tail(r))
         ELSE Fail

\* the members of a dict after "{" or ",", up to and including "}"
ParseMembers(ts0, acc) ==
    LET ts == SkipWs(ts0) IN
    IF ts = <<>> \/ Head(ts).t # "str" \/ ~IsPunct(SkipWs(Tail(ts)), ":") THEN Fail
    ELSE LET e == ParseValue(Tail(SkipWs(Tail(ts)))) IN
         IF ~e.ok THEN Fail
         ELSE LET r == SkipWs(e.rest)
                  d == DictSet(acc, Unescape(Head(ts).s), e.val)
              IN IF IsPunct(r, ",") THEN ParseMembers(Tail(r), d)
                 ELSE IF IsPunct(r, "}") THEN Parsed(d, Tail(r))
                 ELSE Fail

\* json.loads(text): one value and nothing but white space after it
JsonLoads(ts) ==
    LET p == ParseValue(ts) IN
    IF p.ok /\ SkipWs(p.rest) = <<>> THEN p.val ELSE Invalid

RECURSIVE StripRight(_)
StripRight(ts) ==
    IF ts # <<>> /\ ts[Len(ts)].t = "ws" THEN StripRight(SubSeq(ts, 1, Len(ts) - 1))
    ELSE ts

\* str.strip()
Strip(ts) == StripRight(SkipWs(ts))

\* ------------------------------------------------------------------ state
VARIABLES
    proc,       \* self.proc: the child start() spawned last, 0 before the first;
                \* self.writer, self.reader, self.stderr are its three streams
    wstate,     \* per child, its stdin StreamWriter: "none", "open", "eof", "closed"
    stdin,      \* per child, the request lines written to it and not yet read
    stdout,     \* per child, the lines it printed that no _read task has read
    stderr,     \* per child, the lines on its error stream not yet read
    child,      \* per child: "off", "boot" (running, ready not printed), "up", "exited"
    queue,      \* self._queue; each entry keeps the child whose line it was
    ready,      \* self.ready.is_set()
    readers,    \* per start(), its _read task: the child whose stdout it awaits, 0 = no task
    sinks,      \* per start(), its _redirect_stderr task, likewise
    watchers,   \* live _wait_for_ready tasks
    hung,       \* a loop task spins at end-of-stream and never yields the event loop
    logger_disabled,   \* logger.disabled
    logged,     \* records logger.error has emitted
    pc,         \* where the caller is suspended
    op,         \* the public coroutine the caller is in
    meth,       \* the RPC method whose coroutine is executing
    life,       \* the session as the caller left it: "new", "live", "stopped", "stop_failed"
    ret,        \* how the last public call ended
    wrote,      \* the methods written during the current public call, in order
    nreq,       \* requests written so far; the n-th carries n to tell the answers apart
    seen,       \* children whose ready-marker a readiness watcher has observed
    afterStop,  \* the current child was started after a stop() that returned
    dropped,    \* lines a _read task has discarded after a decode error
    calls,      \* public calls made, start() apart
    faults       \* lines printed by the children in answer to no request

vars == <<proc, wstate, stdin, stdout, stderr, child, queue, ready, readers, sinks,
          watchers, hung, logger_disabled, logged, pc, op, meth, life, ret, wrote,
          nreq, seen, afterStop, dropped, calls, faults>>

stream_vars == <<proc, wstate>>
child_vars == <<stdin, stdout, stderr, child, faults>>
task_vars == <<readers, sinks, watchers, hung, dropped>>
caller_vars == <<pc, op, meth, life, ret, wrote, nreq, afterStop, calls>>

\* ------------------------------------------------------------- vocabulary
SimpleOps == {"connect", "disconnect", "status"}
DeviceOps == {"get_model", "get_platform_info", "backup_storage", "install_storage"}
PublicOps == SimpleOps \cup DeviceOps \cup {"stop", "ensure_ready", "ensure_connected"}

\* the wire name of a device-level operation
WireName(o) ==
    CASE o = "get_model" -> "getModel"
      [] o = "get_platform_info" -> "getPlatformInfo"
      [] o = "backup_storage" -> "backupStorage"
      [] o = "install_storage" -> "installStorage"
      [] OTHER -> o

\* the storage object handed to install_storage
Storage == JDict(<<Member("records", JList(<<>>))>>)

\* the command dict each operation builds
Command(m) ==
    IF m = "installStorage"
    THEN JDict(<<Member("method", JStr(m)), Member("args", JList(<<Storage>>))>>)
    ELSE JDict(<<Member("method", JStr(m))>>)

ReadyMsg == JDict(<<Member("ready", JTrue)>>)

Returned(v) == [kind |-> "value", val |-> v]
Raised(e, v) == [kind |-> e, val |-> v]
NoResult == [kind |-> "none", val |-> JNull]

\* the caller is inside a stretch of code that has no await: no other task runs
Atomic == pc \in {"own_write", "stop_eof", "stop_close", "stop_clear"}

\* the event loop can run a background task
LoopFree == ~hung /\ ~Atomic

\* ------------------------------------------------------------------- Init
Init ==
    /\ proc = 0
    /\ wstate = [s \in Sessions |-> "none"]
    /\ stdin = [s \in Sessions |-> <<>>]
    /\ stdout = [s \in Sessions |-> <<>>]
    /\ stderr = [s \in Sessions |-> <<>>]
    /\ child = [s \in Sessions |-> "off"]
    /\ queue = <<>>
    /\ ready = FALSE
    /\ readers = [s \in Sessions |-> 0]
    /\ sinks = [s \in Sessions |-> 0]
    /\ watchers = 0
    /\ hung = FALSE
    /\ logger_disabled = FALSE
    /\ logged = 0
    /\ pc = "idle"
    /\ op = "none"
    /\ meth = "none"
    /\ life = "new"
    /\ ret = NoResult
    /\ wrote = <<>>
    /\ nreq = 0
    /\ seen = {}
    /\ afterStop = FALSE
    /\ dropped = 0
    /\ calls = 0
    /\ faults = 0

\* ------------------------------------------------------------- supervisor
\* start(): spawn the child, take its streams, launch the three loops.
Start ==
    /\ ~hung /\ pc = "idle"
    /\ life # "live"
    /\ proc < MaxSessions
    /\ proc' = proc + 1
    /\ wstate' = [wstate EXCEPT ![proc + 1] = "open"]
    /\ child' = [child EXCEPT ![proc + 1] = "boot"]
    /\ sinks' = [sinks EXCEPT ![proc + 1] = proc + 1]
    /\ readers' = [readers EXCEPT ![proc + 1] = proc + 1]
    /\ watchers' = watchers + 1
    /\ life' = "live"
    /\ afterStop' = (life = "stopped")
    /\ op' = "start"
    /\ ret' = Returned(JNull)
    /\ wrote' = <<>>
    /\ UNCHANGED <<stdin, stdout, stderr, queue, ready, hung, logger_disabled, logged,
                   pc, meth, nreq, seen, dropped, calls, faults>>

\* ----------------------------------------------------------------- caller
\* the caller's next position, the RPC coroutine it is in, the outcome of the
\* public call, the session as it leaves it, and logger.disabled
Go(p, m, r, l, d) ==
    /\ pc' = p
    /\ meth' = m
    /\ ret' = r
    /\ life' = l
    /\ logger_disabled' = d

\* an exception leaves every coroutine of the public call: nothing after the
\* failing await runs
Raise(e, v) ==
    Go("idle", meth, Raised(e, v), IF op = "stop" THEN "stop_failed" ELSE life,
       logger_disabled)

\* the public call returns v
Finish(v) == Go("idle", meth, Returned(v), life, logger_disabled)

\* ensure_ready(): self.ready.wait() lets the caller through
GateOpen == ready

\* the caller invokes a public coroutine and runs to its first await
Invoke(o) ==
    /\ ~hung /\ pc = "idle"
    /\ calls' = calls + 1
    /\ op' = o
    /\ wrote' = <<>>
    /\ CASE o \in SimpleOps -> Go("rpc_ready", o, NoResult, life, logger_disabled)
         [] o = "stop" -> Go("rpc_ready", "disconnect", NoResult, life, logger_disabled)
         [] o = "ensure_ready" -> Go("er_ready", meth, NoResult, life, logger_disabled)
         [] OTHER -> Go("ec_ready", meth, NoResult, life, logger_disabled)
    /\ UNCHANGED <<stream_vars, child_vars, task_vars, queue, ready, logged, nreq,
                   seen, afterStop>>

Call(o) == calls < MaxCalls /\ Invoke(o)

\* a public ensure_ready() returns
EnsureReady ==
    /\ ~hung /\ pc = "er_ready"
    /\ GateOpen
    /\ Finish(JNull)
    /\ UNCHANGED <<stream_vars, child_vars, task_vars, queue, ready, logged, op,
                   wrote, nreq, seen, afterStop, calls>>

\* ensure_connected() passes its own ensure_ready(), silences the logger and
\* enters status()
EnsureConnected ==
    /\ ~hung /\ pc = "ec_ready"
    /\ GateOpen
    /\ Go("rpc_ready", "status", ret, life, TRUE)
    /\ UNCHANGED <<stream_vars, child_vars, task_vars, queue, ready, logged, op,
                   wrote, nreq, seen, afterStop, calls>>

\* the bytes _write(data) hands to the writer: json.dumps(data), then b"\\n"
Frame(data) == JsonDumps(data) \o <<Newline>>

\* _write(command): the dumped command and a newline go to self.writer.  A
\* closed transport drops the bytes and drain() raises ConnectionResetError.
Write(m) ==
    IF wstate[proc] = "open"
    THEN /\ stdin' = [stdin EXCEPT ![proc] =
                        Append(@, [bytes |-> Frame(Command(m)),
                                   id |-> nreq + 1])]
         /\ nreq' = nreq + 1
         /\ wrote' = Append(wrote, m)
         /\ Go("rpc_result", m, ret, life, logger_disabled)
    ELSE /\ Raise("ConnectionResetError", JNull)
         /\ UNCHANGED <<stdin, nreq, wrote>>

\* connect(), disconnect(), status(): past the gate, the request is written
RpcWrite ==
    /\ ~hung /\ pc = "rpc_ready"
    /\ GateOpen
    /\ Write(meth)
    /\ UNCHANGED <<stream_vars, stdout, stderr, child, faults, task_vars, queue, ready,
                   logged, op, seen, afterStop, calls>>

\* a device-level operation writes its own request once ensure_connected()
\* has returned
OwnWrite ==
    /\ ~hung /\ pc = "own_write"
    /\ Write(meth)
    /\ UNCHANGED <<stream_vars, stdout, stderr, child, faults, task_vars, queue, ready,
                   logged, op, seen, afterStop, calls>>

\* the error test reading a field the child never sends
IsErrorWrongKey(result) == IsDict(result) /\ Truthy(DictGet(result, "errors"))

\* isinstance(result, dict) and result.get("error", False)
IsError(result) == IsDict(result) /\ Truthy(DictGet(result, "error"))

\* ensure_connected() has returned
Connected ==
    IF op = "ensure_connected" THEN Go("idle", meth, Returned(JNull), life, FALSE)
    ELSE Go("own_write", WireName(op), ret, life, FALSE)

\* the status test inverted: connect when the device reports connected
AfterStatusInverted(status) ==
    IF ~IsDict(status)
    THEN Go("idle", meth, Raised("TypeError", JNull), life, FALSE)
    ELSE IF ~HasKey(status, "status")
    THEN Go("idle", meth, Raised("KeyError", JStr("status")), life, FALSE)
    ELSE IF Truthy(Item(status, "status"))
    THEN Go("rpc_ready", "connect", ret, life, FALSE)
    ELSE Connected

\* status() has returned inside ensure_connected(): the logger is restored
\* and status["status"] decides
AfterStatus(status) ==
    IF ~IsDict(status)
    THEN Go("idle", meth, Raised("TypeError", JNull), life, FALSE)
    ELSE IF ~HasKey(status, "status")
    THEN Go("idle", meth, Raised("KeyError", JStr("status")), life, FALSE)
    ELSE IF ~Truthy(Item(status, "status"))
    THEN Go("rpc_ready", "connect", ret, life, FALSE)
    ELSE Connected

\* the RPC coroutine returns result to the coroutine that awaited it
Return(result) ==
    CASE op \in SimpleOps -> Finish(result)
      [] op = "stop" -> Go("stop_eof", meth, ret, life, logger_disabled)
      [] op \in DeviceOps /\ meth = WireName(op) -> Finish(result)
      [] op \in DeviceOps \cup {"ensure_connected"} /\ meth = "status" ->
            AfterStatus(result)
      [] op \in DeviceOps \cup {"ensure_connected"} /\ meth = "connect" -> Connected

\* _get_result(): the caller takes the next queued value
GetResult ==
    /\ ~hung /\ pc = "rpc_result"
    /\ queue # <<>>
    /\ queue' = Tail(queue)
    /\ IF IsError(Head(queue).v)
       THEN Raise("JavaScriptError", Item(Head(queue).v, "error"))
       ELSE Return(Head(queue).v)
    /\ UNCHANGED <<stream_vars, child_vars, task_vars, ready, logged, op, wrote,
                   nreq, seen, afterStop, calls>>

\* stop() after disconnect() returned: self.writer.write_eof()
StopEof ==
    /\ ~hung /\ pc = "stop_eof"
    /\ wstate' = [wstate EXCEPT ![proc] = IF @ = "open" THEN "eof" ELSE @]
    /\ pc' = "stop_close"
    /\ UNCHANGED <<proc, child_vars, task_vars, queue, ready, logger_disabled, logged,
                   op, meth, life, ret, wrote, nreq, seen, afterStop, calls>>

\* self.writer.close()
StopClose ==
    /\ ~hung /\ pc = "stop_close"
    /\ wstate' = [wstate EXCEPT ![proc] = "closed"]
    /\ pc' = "stop_clear"
    /\ UNCHANGED <<proc, child_vars, task_vars, queue, ready, logger_disabled, logged,
                   op, meth, life, ret, wrote, nreq, seen, afterStop, calls>>

\* self.ready.clear(), and stop() returns
StopClear ==
    /\ ~hung /\ pc = "stop_clear"
    /\ ready' = FALSE
    /\ Go("idle", meth, Returned(JNull), "stopped", logger_disabled)
    /\ UNCHANGED <<stream_vars, child_vars, task_vars, queue, logged, op, wrote,
                   nreq, seen, afterStop, calls>>

\* ------------------------------------------------------- background tasks
\* A loop task of start() number t has finished an iteration and reads the
\* current stream again (self.reader, self.stderr are looked up afresh).  With
\* nothing to read it waits, unless another task already waits on that stream:
\* StreamReader then raises RuntimeError and the task ends.
Await(tasks, t, pipe) ==
    IF pipe[proc] = <<>> /\ child[proc] # "exited"
       /\ \E u \in Sessions : u # t /\ tasks[u] = proc
    THEN 0
    ELSE proc

\* data.decode("utf-8").strip() and json.loads(data) of one line
Decode(line) == JsonLoads(Strip(line))

\* the decode error escaping the loop: the task ends
OnDecodeErrorEscapes(t, pipe) == 0

\* _read: a decode error is logged and the loop goes on
OnDecodeError(t, pipe) == Await(readers, t, pipe)

\* await self._queue.put(data)
Put(q, data, k) == Append(q, [v |-> data, from |-> k])

\* _read, one line of the stream it waits on
ReadLine(t) ==
    /\ LoopFree
    /\ readers[t] # 0
    /\ stdout[readers[t]] # <<>>
    /\ LET k == readers[t]
           data == Decode(Head(stdout[k]))
       IN /\ stdout' = [stdout EXCEPT ![k] = Tail(@)]
          /\ IF data = Invalid
             THEN /\ queue' = queue
                  /\ dropped' = dropped + 1
                  /\ readers' = [readers EXCEPT ![t] = OnDecodeError(t, stdout')]
             ELSE /\ queue' = Put(queue, data, k)
                  /\ dropped' = dropped
                  /\ readers' = [readers EXCEPT ![t] = Await(readers, t, stdout')]
    /\ UNCHANGED <<stream_vars, stdin, stderr, child, faults, sinks, watchers, hung,
                   ready, logger_disabled, logged, caller_vars, seen>>

\* _read leaving its loop at end-of-stream, as a loop that tested for b"" would
ReadEofEndsLoop(t) ==
    /\ LoopFree
    /\ readers[t] # 0
    /\ stdout[readers[t]] = <<>>
    /\ child[readers[t]] = "exited"
    /\ hung' = hung
    /\ readers' = [readers EXCEPT ![t] = 0]
    /\ UNCHANGED <<stream_vars, child_vars, sinks, watchers, dropped, queue, ready,
                   logger_disabled, logged, caller_vars, seen>>

\* _read at end-of-stream: readline() returns b"" at once, json.loads("")
\* fails, the loop goes on.  On the current stream every further iteration is
\* the same and none of them suspends: the event loop never runs again.
ReadEof(t) ==
    /\ LoopFree
    /\ readers[t] # 0
    /\ stdout[readers[t]] = <<>>
    /\ child[readers[t]] = "exited"
    /\ IF readers[t] = proc
       THEN hung' = TRUE /\ readers' = readers
       ELSE hung' = hung /\ readers' = [readers EXCEPT ![t] = OnDecodeError(t, stdout)]
    /\ UNCHANGED <<stream_vars, child_vars, sinks, watchers, dropped, queue, ready,
                   logger_disabled, logged, caller_vars, seen>>

\* _redirect_stderr, one line: empty after strip() is skipped, the rest logged
SinkLine(t) ==
    /\ LoopFree
    /\ sinks[t] # 0
    /\ stderr[sinks[t]] # <<>>
    /\ LET k == sinks[t]
           data == Strip(Head(stderr[k]))
       IN /\ stderr' = [stderr EXCEPT ![k] = Tail(@)]
          /\ logged' = IF data = <<>> \/ logger_disabled THEN logged ELSE logged + 1
          /\ sinks' = [sinks EXCEPT ![t] = Await(sinks, t, stderr')]
    /\ UNCHANGED <<stream_vars, stdin, stdout, child, faults, readers, watchers, hung,
                   dropped, queue, ready, logger_disabled, caller_vars, seen>>

\* _redirect_stderr at end-of-stream: b"" is empty, the loop goes on at once
SinkEof(t) ==
    /\ LoopFree
    /\ sinks[t] # 0
    /\ stderr[sinks[t]] = <<>>
    /\ child[sinks[t]] = "exited"
    /\ IF sinks[t] = proc
       THEN hung' = TRUE /\ sinks' = sinks
       ELSE hung' = hung /\ sinks' = [sinks EXCEPT ![t] = Await(sinks, t, stderr)]
    /\ UNCHANGED <<stream_vars, child_vars, readers, watchers, dropped, queue, ready,
                   logger_disabled, logged, caller_vars, seen>>

\* _wait_for_ready, one value: data.get("ready", False) ends the task with the
\* gate set; a value that is no dict has no get() and ends it with an error
Watch ==
    /\ LoopFree
    /\ watchers > 0
    /\ queue # <<>>
    /\ queue' = Tail(queue)
    /\ LET data == Head(queue).v IN
       IF ~IsDict(data)
       THEN /\ watchers' = watchers - 1
            /\ UNCHANGED <<ready, seen>>
       ELSE IF Truthy(DictGet(data, "ready"))
       THEN /\ watchers' = watchers - 1
            /\ ready' = TRUE
            /\ seen' = seen \cup {Head(queue).from}
       ELSE UNCHANGED <<watchers, ready, seen>>
    /\ UNCHANGED <<stream_vars, child_vars, readers, sinks, hung, dropped,
                   logger_disabled, logged, caller_vars>>

\* ------------------------------------------------------------------ child
\* The child is main.js under node: it prints the ready-marker once it is up,
\* then answers each request line with one line.  Once the event loop spins
\* nothing the child does is observed any more, and the model stops there.
Responses(m, id) ==
    LET tag == Member("seq", JInt(Decimal[id]))
        error == JDict(<<Member("error", JStr("X")), tag>>)
    IN IF m = "status"
       THEN {JDict(<<Member("status", JTrue), tag>>),
             JDict(<<Member("status", JFalse), tag>>), error}
       ELSE {JDict(<<Member("result", JStr("ok")), tag>>), error}

NoiseOut == {<<Raw("not-json"), Newline>>, <<Lit("42"), Newline>>,
             JsonDumps(JDict(<<Member("info", JStr("x"))>>)) \o <<Newline>>}
NoiseErr == {<<Raw("warning"), Newline>>, <<Newline>>}

ChildReady(s) ==
    /\ ~hung
    /\ child[s] = "boot"
    /\ child' = [child EXCEPT ![s] = "up"]
    /\ stdout' = [stdout EXCEPT ![s] = Append(@, JsonDumps(ReadyMsg) \o <<Newline>>)]
    /\ UNCHANGED <<stream_vars, stdin, stderr, faults, task_vars, queue, ready,
                   logger_disabled, logged, caller_vars, seen>>

ChildServe(s) ==
    /\ ~hung
    /\ child[s] = "up"
    /\ stdin[s] # <<>>
    /\ stdin' = [stdin EXCEPT ![s] = Tail(@)]
    /\ LET req == Head(stdin[s])
           m == Item(JsonLoads(Strip(req.bytes)), "method").val
       IN \E r \in Responses(m, req.id) :
            stdout' = [stdout EXCEPT ![s] = Append(@, JsonDumps(r) \o <<Newline>>)]
    /\ UNCHANGED <<stream_vars, stderr, child, faults, task_vars, queue, ready,
                   logger_disabled, logged, caller_vars, seen>>

ChildNoise(s) ==
    /\ ~hung
    /\ child[s] \in {"boot", "up"}
    /\ faults < MaxFaults
    /\ faults' = faults + 1
    /\ \/ \E l \in NoiseOut :
            /\ stdout' = [stdout EXCEPT ![s] = Append(@, l)]
            /\ stderr' = stderr
       \/ \E l \in NoiseErr :
            /\ stderr' = [stderr EXCEPT ![s] = Append(@, l)]
            /\ stdout' = stdout
    /\ UNCHANGED <<stream_vars, stdin, child, task_vars, queue, ready,
                   logger_disabled, logged, caller_vars, seen>>

\* the child ends, at end of input or by a crash: its output streams reach
\* end-of-stream
ChildExit(s) ==
    /\ ~hung
    /\ child[s] \in {"boot", "up"}
    /\ wstate[s] = "closed" \/ faults < MaxFaults
    /\ faults' = IF wstate[s] = "closed" THEN faults ELSE faults + 1
    /\ child' = [child EXCEPT ![s] = "exited"]
    /\ UNCHANGED <<stream_vars, stdin, stdout, stderr, task_vars, queue, ready,
                   logger_disabled, logged, caller_vars, seen>>

Next ==
    \/ Start
    \/ \E o \in PublicOps : Call(o)
    \/ EnsureReady
    \/ EnsureConnected
    \/ RpcWrite
    \/ OwnWrite
    \/ GetResult
    \/ StopEof
    \/ StopClose
    \/ StopClear
    \/ \E t \in Sessions : ReadLine(t)
    \/ \E t \in Sessions : ReadEof(t)
    \/ \E t \in Sessions : SinkLine(t)
    \/ \E t \in Sessions : SinkEof(t)
    \/ Watch
    \/ \E s \in Sessions : ChildReady(s)
    \/ \E s \in Sessions : ChildServe(s)
    \/ \E s \in Sessions : ChildNoise(s)
    \/ \E s \in Sessions : ChildExit(s)
Spec == Init /\ [][Next]_vars

\* The same driver with children that keep to the protocol: the ready-marker
\* once, one answer per request, the end only after stdin was closed.
QuietCall(o) == calls < MaxQuietCalls /\ Invoke(o)

ChildEnds(s) == wstate[s] = "closed" /\ ChildExit(s)

NextQuiet ==
    \/ Start
    \/ \E o \in PublicOps : QuietCall(o)
    \/ EnsureReady
    \/ EnsureConnected
    \/ RpcWrite
    \/ OwnWrite
    \/ GetResult
    \/ StopEof
    \/ StopClose
    \/ StopClear
    \/ \E t \in Sessions : ReadLine(t)
    \/ \E t \in Sessions : ReadEof(t)
    \/ \E t \in Sessions : SinkEof(t)
    \/ Watch
    \/ \E s \in Sessions : ChildReady(s)
    \/ \E s \in Sessions : ChildServe(s)
    \/ \E s \in Sessions : ChildEnds(s)

SpecQuiet == Init /\ [][NextQuiet]_vars

\* The driver under a caller that only starts, stops and asks for the status,
\* with children that may print a line unasked or end early.
LifecycleOps == {"stop", "status"}

NextLifecycle ==
    \/ Start
    \/ \E o \in LifecycleOps : QuietCall(o)
    \/ RpcWrite
    \/ GetResult
    \/ StopEof
    \/ StopClose
    \/ StopClear
    \/ \E t \in Sessions : ReadLine(t)
    \/ \E t \in Sessions : ReadEof(t)
    \/ \E t \in Sessions : SinkLine(t)
    \/ \E t \in Sessions : SinkEof(t)
    \/ Watch
    \/ \E s \in Sessions : ChildReady(s)
    \/ \E s \in Sessions : ChildServe(s)
    \/ \E s \in Sessions : ChildNoise(s)
    \/ \E s \in Sessions : ChildExit(s)

SpecLifecycle == Init /\ [][NextLifecycle]_vars

\* The framed channel alone: a started session whose ready-marker was seen,
\* a caller that hands JSON values to _write(), and a peer that sends every
\* line it gets back unchanged, so that _read decodes what _write encoded.
Values ==
    {JStr("a"), JStr(""), JStr(" "), JStr("a\nb"), JStr("a\\nb"), JStr("\""),
     JInt("0"), JInt("42"), JTrue, JFalse, JNull,
     JList(<<>>), JList(<<JInt("1"), JStr("a\nb"), JNull>>),
     JDict(<<>>), ReadyMsg, Command("status"), Command("installStorage"),
     JDict(<<Member("error", JStr("a\nb")), Member("a\nb", JList(<<JFalse>>))>>)}

InitCodec ==
    /\ proc = 1
    /\ wstate = [s \in Sessions |-> IF s = 1 THEN "open" ELSE "none"]
    /\ stdin = [s \in Sessions |-> <<>>]
    /\ stdout = [s \in Sessions |-> <<>>]
    /\ stderr = [s \in Sessions |-> <<>>]
    /\ child = [s \in Sessions |-> IF s = 1 THEN "up" ELSE "off"]
    /\ queue = <<>>
    /\ ready = TRUE
    /\ readers = [s \in Sessions |-> IF s = 1 THEN 1 ELSE 0]
    /\ sinks = [s \in Sessions |-> IF s = 1 THEN 1 ELSE 0]
    /\ watchers = 0
    /\ hung = FALSE
    /\ logger_disabled = FALSE
    /\ logged = 0
    /\ pc = "idle"
    /\ op = "start"
    /\ meth = "none"
    /\ life = "live"
    /\ ret = Returned(JNull)
    /\ wrote = <<>>
    /\ nreq = 0
    /\ seen = {1}
    /\ afterStop = FALSE
    /\ dropped = 0
    /\ calls = 0
    /\ faults = 0

\* _write(data) of a JSON value; wrote keeps the values written
WriteValue(data) ==
    /\ ~hung /\ pc = "idle"
    /\ wstate[proc] = "open"
    /\ nreq < MaxFrames
    /\ stdin' = [stdin EXCEPT ![proc] = Append(@, [bytes |-> Frame(data), id |-> nreq + 1])]
    /\ nreq' = nreq + 1
    /\ wrote' = Append(wrote, data)
    /\ UNCHANGED <<stream_vars, stdout, stderr, child, faults, task_vars, queue, ready,
                   logger_disabled, logged, pc, op, meth, life, ret, seen, afterStop,
                   calls>>

\* the peer sends the oldest line it has received back as it is
Loopback(s) ==
    /\ ~hung
    /\ child[s] = "up"
    /\ stdin[s] # <<>>
    /\ stdin' = [stdin EXCEPT ![s] = Tail(@)]
    /\ stdout' = [stdout EXCEPT ![s] = Append(@, Head(stdin[s]).bytes)]
    /\ UNCHANGED <<stream_vars, stderr, child, faults, task_vars, queue, ready,
                   logger_disabled, logged, caller_vars, seen>>

NextCodec ==
    \/ \E data \in Values : WriteValue(data)
    \/ \E s \in Sessions : Loopback(s)
    \/ \E t \in Sessions : ReadLine(t)

SpecCodec == InitCodec /\ [][NextCodec]_vars

\* ----------------------------------------------------------------- claims
\* the caller takes a value off the queue in this step (_get_result returns
\* or raises): a readiness watcher's step leaves the caller where it is
CallerDequeues == pc = "rpc_result" /\ pc' # pc /\ queue # <<>> /\ queue' = Tail(queue)

\* a request line reaches a child's stdin in this step
RequestWritten == \E s \in Sessions : Len(stdin'[s]) > Len(stdin[s])

\* the value is an object with a truthy field
HasTruthy(v, key) ==
    /\ v.kind = "dict"
    /\ \E i \in 1..Len(v.val) :
         /\ v.val[i].k = key
         /\ v.val[i].v \notin {JFalse, JNull, JInt("0"), JStr(""), JList(<<>>), JDict(<<>>)}

\* the field of an object that has it
Field(v, key) == v.val[CHOOSE i \in 1..Len(v.val) : v.val[i].k = key].v

\* C1: no request is written while the gate is NotReady, and a request is
\* written only once a watcher has observed the ready-marker of the child the
\* request goes to.
C1_WrittenOnlyWhenReadyInSession ==
    [][RequestWritten => (ready /\ proc \in seen)]_vars

\* C1, the part the code keeps: the gate is set whenever a request is written.
C1_WrittenOnlyWhenGateSet == [][RequestWritten => ready]_vars

\* C2: with children that print nothing but the ready-marker and one answer
\* per request, every value that is no ready-marker is taken off the queue by
\* the RPC call waiting for it, and it is the answer to that call's request,
\* the latest one written.
C2_FifoCorrelation ==
    [][(faults = 0 /\ queue # <<>> /\ queue' = Tail(queue)
        /\ ~HasTruthy(Head(queue).v, "ready"))
       => /\ CallerDequeues
          /\ Head(queue).v.kind = "dict"
          /\ \E i \in 1..Len(Head(queue).v.val) :
               Head(queue).v.val[i] = Member("seq", JInt(Decimal[nreq]))]_vars

\* C3: a dequeued object with a truthy error field X ends the call with
\* JavaScriptError(X); no request is written again, the gate stays Ready, and
\* the streams, the tasks and the rest of the queue are as they were.
C3_RemoteError ==
    [][(CallerDequeues /\ HasTruthy(Head(queue).v, "error"))
       => /\ ret' = [kind |-> "JavaScriptError", val |-> Field(Head(queue).v, "error")]
          /\ pc' = "idle"
          /\ ready /\ ready'
          /\ wrote # <<>> /\ wrote[Len(wrote)] = meth
          /\ UNCHANGED <<proc, wstate, stdin, stdout, stderr, readers, sinks,
                         watchers, wrote, nreq>>]_vars

\* a call has failed with the remote error and the gate is still Ready
C3_Witness == ret = [kind |-> "JavaScriptError", val |-> JStr("X")] /\ ready

\* the object has the key
HasField(v, key) == v.kind = "dict" /\ \E i \in 1..Len(v.val) : v.val[i].k = key

\* status() inside ensure_connected() takes its answer in this step
StatusAnswered ==
    /\ op \in DeviceOps \cup {"ensure_connected"}
    /\ meth = "status"
    /\ CallerDequeues
    /\ HasField(Head(queue).v, "status")
    /\ ~HasTruthy(Head(queue).v, "error")

\* C4: ensure_connected() writes one status request and nothing else when the
\* answer reports connected, and one status request then one connect request,
\* written after the status answer was dequeued, when it reports not
\* connected.
C4_EnsureConnectedRoundTrips ==
    /\ [](op = "ensure_connected"
          => /\ wrote \in {<<>>, <<"status">>, <<"status", "connect">>}
             /\ (pc = "idle" /\ ret.kind = "value")
                => wrote = IF meth = "connect" THEN <<"status", "connect">>
                           ELSE <<"status">>)
    /\ [][(op = "ensure_connected" /\ StatusAnswered)
          => /\ wrote = <<"status">> /\ wrote' = wrote /\ stdin' = stdin
             /\ IF HasTruthy(Head(queue).v, "status")
                THEN pc' = "idle" /\ ret' = [kind |-> "value", val |-> JNull]
                     /\ meth' = "status"
                ELSE pc' = "rpc_ready" /\ meth' = "connect"]_vars

\* ensure_connected() has returned after a status and a connect round trip
C4_Witness ==
    /\ op = "ensure_connected" /\ pc = "idle" /\ ret.kind = "value"
    /\ wrote = <<"status", "connect">>

\* the wire name as the claim gives it
OwnRequest ==
    CASE op = "get_model" -> "getModel"
      [] op = "get_platform_info" -> "getPlatformInfo"
      [] op = "backup_storage" -> "backupStorage"
      [] op = "install_storage" -> "installStorage"
      [] OTHER -> "none"

\* C5: a device-level operation writes status, connect if the device was not
\* connected, then its own request, in that order, and returns the answer to
\* its own request (children that print nothing unasked); an error answer to
\* status or connect ends the operation with that error and its own request
\* is not written.
C5_DeviceOperations ==
    /\ [](op \in DeviceOps
          => /\ wrote \in {<<>>, <<"status">>, <<"status", "connect">>,
                           <<"status", OwnRequest>>,
                           <<"status", "connect", OwnRequest>>}
             /\ (pc = "idle" /\ ret.kind = "value" /\ faults = 0)
                => /\ wrote[Len(wrote)] = OwnRequest
                   /\ HasField(ret.val, "seq")
                   /\ Field(ret.val, "seq") = JInt(Decimal[nreq]))
    /\ [][(op \in DeviceOps /\ StatusAnswered)
          => /\ wrote = <<"status">> /\ wrote' = wrote /\ stdin' = stdin
             /\ IF HasTruthy(Head(queue).v, "status")
                THEN pc' = "own_write" /\ meth' = OwnRequest
                ELSE pc' = "rpc_ready" /\ meth' = "connect"]_vars
    /\ [][(op \in DeviceOps /\ CallerDequeues /\ meth \in {"status", "connect"}
           /\ HasTruthy(Head(queue).v, "error"))
          => /\ pc' = "idle"
             /\ ret' = [kind |-> "JavaScriptError",
                        val |-> Field(Head(queue).v, "error")]
             /\ wrote' = wrote /\ stdin' = stdin
             /\ \A i \in 1..Len(wrote) : wrote[i] # OwnRequest]_vars
    /\ [][(op \in DeviceOps /\ pc = "idle" /\ op' = op /\ calls' = calls)
          => (wrote' = wrote /\ ~RequestWritten)]_vars

\* C6: in a session started after a stop() that returned, the gate is Ready
\* only once a watcher has observed the ready-marker of that session's child.
C6_FreshHandshake == (afterStop /\ ready) => proc \in seen

\* C7: whenever stop() has finished, by returning or with disconnect's
\* JavaScriptError, the write stream is closed and the gate is NotReady.
C7_StopAlwaysShutsDown ==
    (op = "stop" /\ pc = "idle" /\ ret.kind \in {"value", "JavaScriptError"})
    => (wstate[proc] = "closed" /\ ~ready)

\* C7, the order of a stop() whose disconnect returned: write_eof() on the
\* open stream after disconnect's answer, then close(), then the gate reset.
C7_ShutdownOrder ==
    [][/\ \A s \in Sessions :
            /\ (wstate'[s] = "eof" /\ wstate[s] # "eof")
               => (op = "stop" /\ s = proc /\ wstate[s] = "open"
                   /\ wrote = <<"disconnect">>)
            /\ (wstate'[s] = "closed" /\ wstate[s] # "closed")
               => (op = "stop" /\ s = proc /\ wstate[s] = "eof" /\ ready)
       /\ (ready /\ ~ready') => (op = "stop" /\ wstate[proc] = "closed")]_vars

\* a _read task takes the first line of a child's output in this step
LineRead(k) == stdout[k] # <<>> /\ stdout'[k] = Tail(stdout[k])

C9_EnsureReady ==
    [][(pc = "er_ready" /\ pc' = "idle") => (proc \in seen /\ queue' = queue)]_vars

\* C10: the gate goes from Ready to NotReady only in stop(), and from
\* NotReady to Ready only in a session that start() began and no stop() has
\* ended.
C10_OneShotGate ==
    [][/\ (ready /\ ~ready') => (op = "stop" /\ pc = "stop_clear")
       /\ (~ready /\ ready') => life = "live"]_vars

\* C10, the part the code keeps: nothing but stop() unsets the gate.
C10_OnlyStopUnsets == [][(ready /\ ~ready') => (op = "stop" /\ pc = "stop_clear")]_vars

\* a _read task meets end-of-stream on the current child's output in this step
ReaderMeetsEof ==
    \E t \in Sessions :
      /\ proc # 0 /\ readers[t] = proc
      /\ child[proc] = "exited" /\ stdout[proc] = <<>> /\ stdout' = stdout
      /\ (hung' # hung \/ readers'[t] # readers[t])

\* C11: when the reader loop meets end-of-stream on the current child's
\* output while an RPC call waits for its answer, nothing is put on the queue,
\* and from then on the call neither returns nor raises: the caller stays in
\* _get_result() and no task runs again.
C11_EofSuspendsCaller ==
    /\ [][(pc = "rpc_result" /\ ReaderMeetsEof) => (hung' /\ queue' = queue)]_vars
    /\ [][hung => (hung' /\ pc' = pc /\ ret' = ret /\ queue' = queue)]_vars

\* the reader met end-of-stream while a call was waiting for its answer
C11_Witness ==
    /\ hung /\ pc = "rpc_result" /\ ret = NoResult
    /\ \E t \in Sessions : readers[t] = proc /\ child[proc] = "exited"

\* the bytes hold a line break: the newline itself, or a string literal with
\* an unescaped one
HasLineBreak(tok) == tok = Newline \/ (tok.t = "str" /\ tok.s \in {"a\nb", "\n"})

\* exactly one newline-terminated line
OneLine(bytes) ==
    /\ bytes # <<>> /\ bytes[Len(bytes)] = Newline
    /\ \A i \in 1..(Len(bytes) - 1) : ~HasLineBreak(bytes[i])

\* C12: the bytes _write(v) produces are one newline-terminated line with no
\* line break inside, and the reader loop's decode step turns each such line
\* into one queued value equal to v: the values queued, then those of the lines
\* not yet read, are the values written, in order.
C12_FramedRoundTrip ==
    /\ \A i \in 1..Len(stdin[1]) : OneLine(stdin[1][i].bytes)
    /\ \A i \in 1..Len(stdout[1]) : OneLine(stdout[1][i])
    /\ [i \in 1..Len(queue) |-> queue[i].v]
         \o [i \in 1..Len(stdout[1]) |-> Decode(stdout[1][i])]
         \o [i \in 1..Len(stdin[1]) |-> Decode(stdin[1][i].bytes)]
       = wrote
    /\ dropped = 0

\* two values went through the channel, one of them a string with a newline
C12_Witness ==
    /\ Len(queue) = MaxFrames /\ stdin[1] = <<>> /\ stdout[1] = <<>>
    /\ \E i \in 1..Len(queue) : queue[i].v = JStr("a\nb")
    /\ \E i \in 1..Len(queue) : IsDict(queue[i].v)

\* C13: a readiness watcher and an RPC call are never both consumers of the
\* queue: while a readiness watcher is active the gate is NotReady, and no
\* RPC call waits on the queue.
C13_ConsumerMutex ==
    watchers > 0 => (~ready /\ pc # "rpc_result")

\* the _read tasks that are alive
ActiveReaders == {t \in Sessions : readers[t] # 0}

\* C14: at most one reader loop is active at any moment, also after stop()
\* followed by start(): the _read task of an ended session is gone when the
\* next session has its own.
C14_SingleProducer == Cardinality(ActiveReaders) <= 1

\* a readiness watcher takes a value off the queue in this step
WatcherDequeues == queue # <<>> /\ queue' = Tail(queue) /\ pc' = pc

\* C15: a readiness watcher discards every dequeued value that is no object
\* with a truthy ready field, objects and other JSON values alike, and keeps
\* running; it sets the gate and ends when it dequeues such an object, and
\* the gate becomes Ready in no other step.
C15_WatcherLiveness ==
    [][/\ WatcherDequeues
          => IF HasTruthy(Head(queue).v, "ready")
             THEN ready' /\ watchers' = watchers - 1
             ELSE ready' = ready /\ watchers' = watchers
       /\ (~ready /\ ready') => (WatcherDequeues /\ HasTruthy(Head(queue).v, "ready"))]_vars

\* C15, the part the code keeps: objects without a truthy ready field are
\* discarded and the gate is set by nothing but a dequeued ready-marker.
C15_ObjectsDiscarded ==
    [][/\ (WatcherDequeues /\ IsDict(Head(queue).v))
          => IF HasTruthy(Head(queue).v, "ready")
             THEN ready' /\ watchers' = watchers - 1
             ELSE ready' = ready /\ watchers' = watchers
       /\ (~ready /\ ready') => (WatcherDequeues /\ HasTruthy(Head(queue).v, "ready"))]_vars

\* the _redirect_stderr task of start() number t reads a line in this step
SinkReads(t) ==
    /\ sinks[t] # 0 /\ stderr[sinks[t]] # <<>>
    /\ stderr'[sinks[t]] = Tail(stderr[sinks[t]])

\* a _read task is at end-of-stream
ReaderAtEof ==
    \E u \in Sessions :
      readers[u] # 0 /\ stdout[readers[u]] = <<>> /\ child[readers[u]] = "exited"

\* the _redirect_stderr task of start() number t meets end-of-stream in this
\* step (no _read task is at end-of-stream, so the step is the sink's)
SinkMeetsEof(t) ==
    /\ sinks[t] # 0 /\ stderr[sinks[t]] = <<>> /\ child[sinks[t]] = "exited"
    /\ ~ReaderAtEof
    /\ stderr' = stderr
    /\ (hung' # hung \/ sinks'[t] # sinks[t])

\* C16: the stderr sink hands every line that is not empty after strip() to
\* logger.error and skips the empty ones, and when the error stream is at
\* end-of-stream the loop ends: the task is over and nothing keeps iterating.
C16_SinkTerminates ==
    [][\A t \in Sessions :
         /\ SinkReads(t)
            => IF Strip(Head(stderr[sinks[t]])) = <<>> \/ logger_disabled
               THEN logged' = logged
               ELSE logged' = logged + 1
         /\ SinkMeetsEof(t) => (sinks'[t] = 0 /\ ~hung')]_vars

\* C16, the part the code keeps: lines are logged or skipped as stated.
C16_LinesForwarded ==
    [][\A t \in Sessions :
         SinkReads(t)
         => IF Strip(Head(stderr[sinks[t]])) = <<>> \/ logger_disabled
            THEN logged' = logged
            ELSE logged' = logged + 1]_vars

\* C17: when stop() completes the queue is empty, and no value that came
\* from the child of an ended session is taken off the queue, by a readiness
\* watcher or by an RPC call, in a session started after that stop().
C17_StopDrainsQueue ==
    [][/\ (pc = "stop_clear" /\ pc' = "idle") => queue' = <<>>
       /\ (afterStop /\ queue # <<>> /\ queue' = Tail(queue))
          => Head(queue).from = proc]_vars

\* C18: whenever ensure_connected(), or a device-level operation using it,
\* has finished, by returning or with the remote error that answered its
\* status request, logger.disabled is False again.
C18_LoggingRestored ==
    (op \in DeviceOps \cup {"ensure_connected"} /\ pc = "idle"
     /\ ret.kind \in {"value", "JavaScriptError"})
    => ~logger_disabled

\* C18, the part the code keeps: logger.disabled is False again when the
\* status call of ensure_connected() has returned.
C18_RestoredOnSuccess ==
    (op \in DeviceOps \cup {"ensure_connected"} /\ pc = "idle" /\ ret.kind = "value")
    => ~logger_disabled

\* the caller passes through _write() in this step
EntersWrite == pc \in {"rpc_ready", "own_write"} /\ pc' # pc

\* C19: no call reaches _write() on a stream that write_eof() or close() was
\* called on: after a stop() that returned, a call waits at the gate until
\* the next session is started and Ready, and writes to that session's stream.
C19_NoWriteAfterClose ==
    [][EntersWrite => (wstate[proc] = "open" /\ RequestWritten)]_vars

====
